---- MODULE Spec2Model ----
(* CORD-19 analysis: the CORD19Analyzer class of data_analysis.py (load,   *)
(* clean, the three aggregate queries) and the dashboard's main of app.py. *)
(* Text is a sequence of one-character strings; a table cell is a record   *)
(* [null, s] so that a missing value (NaN) is distinct from every string.  *)
EXTENDS Integers, Sequences, FiniteSets, TLC

VARIABLES
    file,           \* what data/metadata.csv holds
    analyzer,       \* "none", "constructed", or "failed" (the constructor raised)
    df,             \* analyzer.df
    df_clean,       \* the caller's df_clean: the last table clean_data returned
    outcome,        \* the last call of a method and the exception it raised
    printed,        \* the last line load_data or clean_data printed
    result,         \* the last aggregate returned by an analyze_ method
    pc,             \* app.main: where the run is; "library" when no dashboard runs
    section,        \* the sidebar radio's choice
    uploaded_file,  \* the sidebar uploader's content
    shown,          \* st.success / st.warning / st.error boxes shown in this run
    rendered,       \* the view this run rendered
    steps,          \* what this run of main has attempted, in order
    tie_order,      \* the orders value_counts has given to equal counts so far
    kept            \* a cleaned table and an aggregate the caller has kept

vars == <<file, analyzer, df, df_clean, outcome, printed, result,
          pc, section, uploaded_file, shown, rendered, steps, tie_order, kept>>

callerVars == <<tie_order, kept>>

appVars == <<pc, section, uploaded_file, shown, rendered, steps>>

(* ------------------------------ bounds --------------------------------- *)
MaxRows == 4
MaxYearRows == 4
MaxJournalRows == 3
MaxWordRows == 2
MaxAbstractLen == 3
MaxTopN == 2

(* ------------------------------ cells ---------------------------------- *)
NaN == [null |-> TRUE, s |-> <<>>]
Str(s) == [null |-> FALSE, s |-> s]
NaT == [null |-> TRUE, year |-> 0, month |-> 0, day |-> 0]
NoYear == [null |-> TRUE, v |-> 0]
Year(y) == [null |-> FALSE, v |-> y]

\* a DataFrame is a record holding its rows; None is "no DataFrame"
None == [isNone |-> TRUE, rows |-> <<>>]
DataFrame(rows) == [isNone |-> FALSE, rows |-> rows]
NoError == "no error"

\* what the path data/metadata.csv holds: nothing, a file of no bytes, or a CSV
MissingFile == [kind |-> "missing", rows |-> <<>>]
EmptyFile == [kind |-> "empty", rows |-> <<>>]
Csv(rows) == [kind |-> "csv", rows |-> rows]
\* st.sidebar.file_uploader returned None
NoUpload == [kind |-> "none", rows |-> <<>>]

(* ------------------------------ characters ----------------------------- *)
UpperSeq == <<"A","B","C","D","E","F","G","H","I","J","K","L","M",
              "N","O","P","Q","R","S","T","U","V","W","X","Y","Z">>
LowerSeq == <<"a","b","c","d","e","f","g","h","i","j","k","l","m",
              "n","o","p","q","r","s","t","u","v","w","x","y","z">>
DigitSeq == <<"0","1","2","3","4","5","6","7","8","9">>

Range(f) == {f[i] : i \in DOMAIN f}

IsUpper(c) == c \in Range(UpperSeq)
IsAsciiLetter(c) == c \in Range(UpperSeq) \cup Range(LowerSeq)
IsDigit(c) == c \in Range(DigitSeq)
\* re's \w on str patterns: Unicode alphanumerics and the underscore
NonAsciiLetters == {"é"}
IsWordChar(c) == IsAsciiLetter(c) \/ IsDigit(c) \/ c = "_" \/ c \in NonAsciiLetters
\* str.split() with no separator and str.strip() with no argument
Whitespace == {" ", "\t", "\n"}
IsSpace(c) == c \in Whitespace

DigitVal(c) == (CHOOSE i \in DOMAIN DigitSeq : DigitSeq[i] = c) - 1

LowerChar(c) == IF IsUpper(c)
                THEN LowerSeq[CHOOSE i \in DOMAIN UpperSeq : UpperSeq[i] = c]
                ELSE c
\* str.lower()
Lower(s) == [i \in DOMAIN s |-> LowerChar(s[i])]

\* str.strip()
RECURSIVE LStrip(_)
LStrip(s) == IF s # <<>> /\ IsSpace(Head(s)) THEN LStrip(Tail(s)) ELSE s
RECURSIVE RStrip(_)
RStrip(s) == IF s # <<>> /\ IsSpace(s[Len(s)])
             THEN RStrip(SubSeq(s, 1, Len(s) - 1)) ELSE s
Strip(s) == RStrip(LStrip(s))

\* str.split(): the maximal runs of non-whitespace characters, left to right
RECURSIVE SplitFrom(_, _, _)
SplitFrom(s, i, cur) ==
    IF i > Len(s) THEN (IF cur = <<>> THEN <<>> ELSE <<cur>>)
    ELSE IF IsSpace(s[i])
         THEN (IF cur = <<>> THEN <<>> ELSE <<cur>>) \o SplitFrom(s, i + 1, <<>>)
         ELSE SplitFrom(s, i + 1, Append(cur, s[i]))
\* (mutant) str.split(' '): one piece per single space, empty pieces included
RECURSIVE SplitOnSpace(_, _, _)
SplitOnSpace(s, i, cur) ==
    IF i > Len(s) THEN <<cur>>
    ELSE IF s[i] = " " THEN <<cur>> \o SplitOnSpace(s, i + 1, <<>>)
    ELSE SplitOnSpace(s, i + 1, Append(cur, s[i]))
Split_OnSpace(s) == SplitOnSpace(s, 1, <<>>)

Split(s) == SplitFrom(s, 1, <<>>)

(* --------------------------- pandas helpers ---------------------------- *)
Max(a, b) == IF a >= b THEN a ELSE b
Min(a, b) == IF a <= b THEN a ELSE b

RECURSIVE SetToSortedSeq(_)
SetToSortedSeq(S) ==
    IF S = {} THEN <<>>
    ELSE LET m == CHOOSE x \in S : \A y \in S : x <= y
         IN <<m>> \o SetToSortedSeq(S \ {m})

\* pd.to_datetime(..., errors='coerce') on one cell: an ISO calendar date
\* YYYY-MM-DD parses, anything else (and a missing value) becomes NaT
DaysIn(m) == IF m = 2 THEN 28 ELSE IF m \in {4, 6, 9, 11} THEN 30 ELSE 31
IsIsoDate(s) ==
    /\ Len(s) = 10
    /\ s[5] = "-" /\ s[8] = "-"
    /\ \A i \in {1, 2, 3, 4, 6, 7, 9, 10} : IsDigit(s[i])
    /\ LET m == 10 * DigitVal(s[6]) + DigitVal(s[7])
           d == 10 * DigitVal(s[9]) + DigitVal(s[10])
       IN m \in 1..12 /\ d \in 1..DaysIn(m)
to_datetime(cell) ==
    IF cell.null \/ ~IsIsoDate(cell.s) THEN NaT
    ELSE [null |-> FALSE,
          year |-> 1000 * DigitVal(cell.s[1]) + 100 * DigitVal(cell.s[2])
                   + 10 * DigitVal(cell.s[3]) + DigitVal(cell.s[4]),
          month |-> 10 * DigitVal(cell.s[6]) + DigitVal(cell.s[7]),
          day |-> 10 * DigitVal(cell.s[9]) + DigitVal(cell.s[10])]

\* Series.dt.year on one cell
dt_year(t) == IF t.null THEN NoYear ELSE Year(t.year)

\* Series.mode(): the most frequent non-null values, in sorted order
CountOf(col, v) == Cardinality({i \in DOMAIN col : ~col[i].null /\ col[i].v = v})
Present(col) == {col[i].v : i \in {j \in DOMAIN col : ~col[j].null}}
mode(col) ==
    SetToSortedSeq({v \in Present(col) :
                      \A w \in Present(col) : CountOf(col, w) <= CountOf(col, v)})

\* Series.fillna(value) on one cell
fillna(cell, value) == IF cell.null THEN Year(value) ELSE cell

\* lambda x: len(str(x).split()) if pd.notnull(x) else 0
abstract_word_count(x) == IF ~x.null THEN Len(Split(x.s)) ELSE 0

\* .str.lower().str.strip() on one cell; a missing value stays missing
journal_clean(x) == IF x.null THEN NaN ELSE Str(Strip(Lower(x.s)))

\* (mutant) the title filter keeps every row
DropNullTitles_KeepAll(rows) == rows

\* df_clean[df_clean['title'].notnull()]: the rows with a title, in order,
\* index labels kept
RECURSIVE DropNullTitles(_)
DropNullTitles(rows) ==
    IF rows = <<>> THEN <<>>
    ELSE (IF ~Head(rows).title.null THEN <<Head(rows)>> ELSE <<>>)
         \o DropNullTitles(Tail(rows))

\* the column publication_year as clean_data has it before fillna
YearColumn(raw) == [i \in DOMAIN raw |-> dt_year(to_datetime(raw[i].publish_time))]

\* (mutant) the mode is taken after the rows without title are dropped
ModeInput_AfterDrop(raw) == YearColumn(DropNullTitles(raw))

\* the rows mode_year is computed from
ModeInput(raw) == YearColumn(raw)

\* read_csv gives a column without any value dtype float64, and .str on it
\* raises AttributeError
StrAccessorFails(raw) == raw # <<>> /\ \A i \in DOMAIN raw : raw[i].journal.null

\* (mutant) the cleaned journal names are written into self.df's journal column
SelfDfAfterClean_JournalInPlace(self_df) ==
    DataFrame([i \in DOMAIN self_df.rows |->
                 [self_df.rows[i] EXCEPT !.journal = journal_clean(@)]])

\* (mutant) the rows without title are dropped from self.df itself
SelfDfAfterClean_DropInPlace(self_df) == DataFrame(DropNullTitles(self_df.rows))

\* df_clean = self.df.copy(): every assignment of clean_data goes to the copy
\* and the filter builds a new table, so self.df is what it was
SelfDfAfterClean(self_df) == self_df

\* clean_data: AttributeError when self.df is None (None.copy()), KeyError when
\* mode() is empty (mode()[0]), AttributeError when the journal column holds no
\* string, else the cleaned table; self_df is self.df after the call
clean_data(self_df) ==
    IF self_df.isNone
    THEN [raised |-> "AttributeError", frame |-> None, self_df |-> self_df]
    ELSE LET raw == self_df.rows IN
         IF mode(ModeInput(raw)) = <<>>
         THEN [raised |-> "KeyError", frame |-> None, self_df |-> self_df]
         ELSE IF StrAccessorFails(raw)
         THEN [raised |-> "AttributeError", frame |-> None, self_df |-> self_df]
         ELSE LET mode_year == mode(ModeInput(raw))[1]
                  all == [i \in DOMAIN raw |->
                            [index |-> i - 1,
                             title |-> raw[i].title,
                             abstract |-> raw[i].abstract,
                             journal |-> raw[i].journal,
                             publish_time |-> to_datetime(raw[i].publish_time),
                             publication_year |-> fillna(YearColumn(raw)[i], mode_year),
                             abstract_word_count |-> abstract_word_count(raw[i].abstract),
                             journal_clean |-> journal_clean(raw[i].journal)]]
              IN [raised |-> NoError, frame |-> DataFrame(DropNullTitles(all)),
                  self_df |-> SelfDfAfterClean(self_df)]

(* ---------------------------- exploration ------------------------------ *)
\* the columns of the raw table that the model carries
RawColumns == <<"title", "abstract", "journal", "publish_time">>
CellOf(row, column) ==
    IF column = "title" THEN row.title
    ELSE IF column = "abstract" THEN row.abstract
    ELSE IF column = "journal" THEN row.journal
    ELSE row.publish_time

\* self.df.isnull().sum() for one column
MissingCount(rows, column) ==
    Cardinality({i \in DOMAIN rows : CellOf(rows[i], column).null})

\* missing_data[missing_data > 0].sort_values(ascending=False): the columns
\* with a missing value, counts non-increasing, equal counts in any order
missing_values(rows) ==
    LET C == {c \in Range(RawColumns) : MissingCount(rows, c) > 0}
        k == Cardinality(C)
    IN {[i \in 1..k |-> [key |-> p[i], count |-> MissingCount(rows, p[i])]] :
          p \in {q \in [1..k -> C] :
                   /\ \A i, j \in 1..k : i # j => q[i] # q[j]
                   /\ \A i \in 1..(k - 1) :
                        MissingCount(rows, q[i]) >= MissingCount(rows, q[i + 1])}}

\* DataFrame.head(): the first five rows
SampleRows == 5

\* basic_exploration: every outcome of the dictionary it returns (shape,
\* columns, missing_values, sample); it only reads self.df
basic_exploration(self_df) ==
    {[shape |-> <<Len(self_df.rows), Len(RawColumns)>>,
      columns |-> RawColumns,
      missing_values |-> mv,
      sample |-> SubSeq(self_df.rows, 1, Min(SampleRows, Len(self_df.rows)))] :
       mv \in missing_values(self_df.rows)}

(* ------------------------- aggregate queries --------------------------- *)
\* the non-null values of a column of [null, v] cells, in row order
RECURSIVE dropna(_)
dropna(col) ==
    IF col = <<>> THEN <<>>
    ELSE (IF Head(col).null THEN <<>> ELSE <<Head(col).v>>) \o dropna(Tail(col))

Occurrences(keys, k) == Cardinality({i \in DOMAIN keys : keys[i] = k})

\* Series.value_counts(): one entry per distinct non-null value, counts
\* non-increasing; the order among equal counts is not specified, so every
\* such order is an outcome
value_counts(col) ==
    LET keys == dropna(col)
        D == Range(keys)
        k == Cardinality(D)
    IN {[i \in 1..k |-> [key |-> p[i], count |-> Occurrences(keys, p[i])]] :
          p \in {q \in [1..k -> D] :
                   /\ \A i, j \in 1..k : i # j => q[i] # q[j]
                   /\ \A i \in 1..(k - 1) :
                        Occurrences(keys, q[i]) >= Occurrences(keys, q[i + 1])}}

\* Series.sort_index(): entries by ascending key
RECURSIVE InsertByKey(_, _)
InsertByKey(sorted, e) ==
    IF sorted = <<>> THEN <<e>>
    ELSE IF e.key < Head(sorted).key THEN <<e>> \o sorted
    ELSE <<Head(sorted)>> \o InsertByKey(Tail(sorted), e)
RECURSIVE sort_index(_)
sort_index(vc) ==
    IF vc = <<>> THEN <<>>
    ELSE InsertByKey(sort_index(SubSeq(vc, 1, Len(vc) - 1)), vc[Len(vc)])

\* "Filter for recent years (2010 onwards)"
RecentFrom == 2010
\* (mutant) index > 2010
IsRecent_Strict(year) == year > RecentFrom
IsRecent(year) == year >= RecentFrom

RECURSIVE FilterRecent(_)
FilterRecent(vc) ==
    IF vc = <<>> THEN <<>>
    ELSE (IF IsRecent(Head(vc).key) THEN <<Head(vc)>> ELSE <<>>)
         \o FilterRecent(Tail(vc))

YearCells(rows) == [i \in DOMAIN rows |-> rows[i].publication_year]
JournalCells(rows) ==
    [i \in DOMAIN rows |-> [null |-> rows[i].journal_clean.null,
                            v |-> rows[i].journal_clean.s]]

\* analyze_publications_over_time: every outcome of
\* value_counts().sort_index() restricted to index >= 2010
analyze_publications_over_time(clean) ==
    {FilterRecent(sort_index(vc)) : vc \in value_counts(YearCells(clean.rows))}

\* (mutant) the last n entries
head_Last(seq, n) == SubSeq(seq, Len(seq) - Min(Max(n, 0), Len(seq)) + 1, Len(seq))

\* Series.head(n): the first n entries, all but the last -n when n < 0
head(seq, n) ==
    IF n >= 0 THEN SubSeq(seq, 1, Min(n, Len(seq)))
    ELSE SubSeq(seq, 1, Max(Len(seq) + n, 0))

\* analyze_top_journals: every outcome of value_counts().head(top_n)
analyze_top_journals(clean, top_n) ==
    {head(vc, top_n) : vc \in value_counts(JournalCells(clean.rows))}

(* --------------------------- word frequency --------------------------- *)
\* ' '.join(df_clean[column].dropna().astype(str))
RECURSIVE JoinWithSpace(_)
JoinWithSpace(texts) ==
    IF texts = <<>> THEN <<>>
    ELSE IF Len(texts) = 1 THEN texts[1]
    ELSE texts[1] \o <<" ">> \o JoinWithSpace(Tail(texts))

TextCells(rows, column) ==
    [i \in DOMAIN rows |->
       LET c == IF column = "title" THEN rows[i].title ELSE rows[i].abstract
       IN [null |-> c.null, v |-> c.s]]

\* \b before position i of s (i in 1..Len(s)+1): exactly one of the two
\* neighbouring characters is a word character
WordBoundary(s, i) ==
    LET left == i > 1 /\ IsWordChar(s[i - 1])
        right == i <= Len(s) /\ IsWordChar(s[i])
    IN left # right

\* the number of consecutive [a-zA-Z] characters of s from position i on
RECURSIVE LetterRun(_, _)
LetterRun(s, i) ==
    IF i <= Len(s) /\ IsAsciiLetter(s[i]) THEN 1 + LetterRun(s, i + 1) ELSE 0

\* the quantifier of [a-zA-Z]{3,}
MinWordLen == 3

\* the length of the match of \b[a-zA-Z]{3,}\b at position i, 0 when there is
\* none: the greedy quantifier gives back letters until \b holds after it
MatchAt(s, i) ==
    IF ~WordBoundary(s, i) THEN 0
    ELSE LET ends == {k \in MinWordLen..LetterRun(s, i) : WordBoundary(s, i + k)}
         IN IF ends = {} THEN 0 ELSE CHOOSE k \in ends : \A m \in ends : m <= k

\* re.findall: the non-overlapping matches, scanning from the left
RECURSIVE FindAllFrom(_, _)
FindAllFrom(s, i) ==
    IF i > Len(s) THEN <<>>
    ELSE LET k == MatchAt(s, i)
         IN IF k > 0 THEN <<SubSeq(s, i, i + k - 1)>> \o FindAllFrom(s, i + k)
            ELSE FindAllFrom(s, i + 1)
findall(s) == FindAllFrom(s, 1)

\* Counter(words): one entry per distinct word in order of first occurrence
RECURSIVE CountInto(_, _)
CountInto(items, w) ==
    IF items = <<>> THEN <<[key |-> w, count |-> 1]>>
    ELSE IF Head(items).key = w
         THEN <<[key |-> w, count |-> Head(items).count + 1]>> \o Tail(items)
         ELSE <<Head(items)>> \o CountInto(Tail(items), w)
RECURSIVE Counter(_)
Counter(words) ==
    IF words = <<>> THEN <<>>
    ELSE CountInto(Counter(SubSeq(words, 1, Len(words) - 1)), words[Len(words)])

stop_words ==
    {<<"t","h","e">>, <<"a","n","d">>, <<"o","f">>, <<"i","n">>, <<"t","o">>,
     <<"a">>, <<"f","o","r">>, <<"w","i","t","h">>, <<"o","n">>, <<"b","y">>,
     <<"a","s">>, <<"a","n">>, <<"f","r","o","m">>, <<"t","h","a","t">>,
     <<"t","h","i","s">>, <<"i","s">>, <<"a","r","e">>, <<"w","a","s">>,
     <<"w","e","r","e">>, <<"b","e">>}

\* (mutant) no word is filtered out
filtered_words_All(items) == items

\* {word: count for word, count in word_freq.items() if word not in stop_words}
RECURSIVE filtered_words(_)
filtered_words(items) ==
    IF items = <<>> THEN <<>>
    ELSE (IF Head(items).key \notin stop_words THEN <<Head(items)>> ELSE <<>>)
         \o filtered_words(Tail(items))

\* (mutant) an entry goes before the entries of equal count
RECURSIVE InsertByCountDesc_Unstable(_, _)
InsertByCountDesc_Unstable(sorted, e) ==
    IF sorted = <<>> THEN <<e>>
    ELSE IF e.count >= Head(sorted).count THEN <<e>> \o sorted
    ELSE <<Head(sorted)>> \o InsertByCountDesc_Unstable(Tail(sorted), e)

\* sorted(items, key=count, reverse=True): stable, so entries of equal count
\* keep their order
RECURSIVE InsertByCountDesc(_, _)
InsertByCountDesc(sorted, e) ==
    IF sorted = <<>> THEN <<e>>
    ELSE IF e.count > Head(sorted).count THEN <<e>> \o sorted
    ELSE <<Head(sorted)>> \o InsertByCountDesc(Tail(sorted), e)
RECURSIVE SortByCountDesc(_)
SortByCountDesc(items) ==
    IF items = <<>> THEN <<>>
    ELSE InsertByCountDesc(SortByCountDesc(SubSeq(items, 1, Len(items) - 1)),
                           items[Len(items)])

\* Counter.most_common(n) = heapq.nlargest(n, items, key=count)
most_common(items, n) ==
    IF n <= 0 THEN <<>>
    ELSE SubSeq(SortByCountDesc(items), 1, Min(n, Len(items)))

all_text(clean, column) == JoinWithSpace(dropna(TextCells(clean.rows, column)))

analyze_word_frequency(clean, column, top_n) ==
    most_common(filtered_words(Counter(findall(Lower(all_text(clean, column))))),
                top_n)

(* ------------------------------ loading -------------------------------- *)
\* (mutant) FileNotFoundError is not caught
LoadData_Raising(f) ==
    IF f.kind = "missing"
    THEN [raised |-> "FileNotFoundError", df |-> None, printed |-> ""]
    ELSE IF f.kind = "empty"
    THEN [raised |-> "EmptyDataError", df |-> None, printed |-> ""]
    ELSE [raised |-> NoError, df |-> DataFrame(f.rows), printed |-> "Dataset Info:"]

\* load_data: FileNotFoundError is caught (a line is printed, None returned and
\* self.df stays None); pd.read_csv's EmptyDataError on a file of no bytes is not
LoadData(f) ==
    IF f.kind = "missing"
    THEN [raised |-> NoError, df |-> None,
          printed |-> "File not found. Please check the file path."]
    ELSE IF f.kind = "empty"
    THEN [raised |-> "EmptyDataError", df |-> None, printed |-> ""]
    ELSE [raised |-> NoError, df |-> DataFrame(f.rows), printed |-> "Dataset Info:"]

(* ----------------------- the analyzer's methods ------------------------ *)
NoResult == [op |-> "none", column |-> "", top_n |-> 0, value |-> <<>>]
NoCall == [op |-> "none", raised |-> NoError]

\* top_n=15 and top_n=20, the defaults of analyze_top_journals and
\* analyze_word_frequency
DefaultTopJournals == 15
DefaultTopWords == 20
TopNs == 0..MaxTopN
Columns == {"title", "abstract"}

\* CORD19Analyzer(file_path): __init__ sets df to None and calls load_data
Construct ==
    /\ pc = "library" /\ analyzer = "none"
    /\ LET l == LoadData(file)
       IN /\ analyzer' = IF l.raised = NoError THEN "constructed" ELSE "failed"
          /\ df' = l.df
          /\ printed' = l.printed
          /\ outcome' = [op |-> "load_data", raised |-> l.raised]
    /\ UNCHANGED <<file, df_clean, result>>
    /\ UNCHANGED appVars
    /\ UNCHANGED callerVars

\* df_clean = analyzer.clean_data()
CleanData ==
    /\ pc = "library" /\ analyzer = "constructed"
    /\ LET c == clean_data(df)
       IN /\ outcome' = [op |-> "clean_data", raised |-> c.raised]
          /\ df_clean' = IF c.raised = NoError THEN c.frame ELSE df_clean
          /\ printed' = IF c.raised = NoError
                        THEN "Data cleaned. Remaining rows:" ELSE printed
          /\ df' = c.self_df
    /\ UNCHANGED <<file, analyzer, result>>
    /\ UNCHANGED appVars
    /\ UNCHANGED callerVars

\* analyzer.basic_exploration(); AttributeError on None.shape when df is None
BasicExploration ==
    /\ pc = "library" /\ analyzer = "constructed"
    /\ IF df.isNone
       THEN /\ outcome' = [op |-> "basic_exploration", raised |-> "AttributeError"]
            /\ result' = result
       ELSE /\ outcome' = [op |-> "basic_exploration", raised |-> NoError]
            /\ \E e \in basic_exploration(df) :
                  result' = [op |-> "basic_exploration", column |-> "",
                             top_n |-> 0, value |-> e.missing_values,
                             shape |-> e.shape, columns |-> e.columns,
                             sample |-> e.sample]
    /\ UNCHANGED <<file, analyzer, df, df_clean, printed>>
    /\ UNCHANGED appVars
    /\ UNCHANGED callerVars

\* analyzer.analyze_publications_over_time(df_clean)
AnalyzePublicationsOverTime ==
    /\ pc = "library" /\ analyzer = "constructed" /\ ~df_clean.isNone
    /\ \E v \in analyze_publications_over_time(df_clean) :
         result' = [op |-> "analyze_publications_over_time", column |-> "",
                    top_n |-> 0, value |-> v]
    /\ outcome' = [op |-> "analyze_publications_over_time", raised |-> NoError]
    /\ UNCHANGED <<file, analyzer, df, df_clean, printed>>
    /\ UNCHANGED appVars
    /\ UNCHANGED callerVars

\* value_counts is a function of its column: the order it gave to equal counts
\* of a column once is the order it gives again
ValueCountsNow(col) ==
    {vc \in value_counts(col) :
       \A known \in tie_order : known.col = col => known.vc = vc}

\* tie_order once vc was returned for col; a column without equal counts has
\* one order only and nothing to record
Observed(col, vc) ==
    IF value_counts(col) = {vc} THEN tie_order
    ELSE tie_order \cup {[col |-> col, vc |-> vc]}

\* analyzer.analyze_top_journals(df_clean, top_n)
AnalyzeTopJournals ==
    /\ pc = "library" /\ analyzer = "constructed" /\ ~df_clean.isNone
    /\ \E top_n \in TopNs \cup {DefaultTopJournals} :
         \E vc \in ValueCountsNow(JournalCells(df_clean.rows)) :
           /\ head(vc, top_n) \in analyze_top_journals(df_clean, top_n)
           /\ result' = [op |-> "analyze_top_journals", column |-> "",
                         top_n |-> top_n, value |-> head(vc, top_n)]
           /\ tie_order' = Observed(JournalCells(df_clean.rows), vc)
    /\ outcome' = [op |-> "analyze_top_journals", raised |-> NoError]
    /\ UNCHANGED <<file, analyzer, df, df_clean, printed, kept>>
    /\ UNCHANGED appVars

\* analyzer.analyze_word_frequency(df_clean, column, top_n)
AnalyzeWordFrequency ==
    /\ pc = "library" /\ analyzer = "constructed" /\ ~df_clean.isNone
    /\ \E column \in Columns, top_n \in TopNs \cup {DefaultTopWords} :
         result' = [op |-> "analyze_word_frequency", column |-> column,
                    top_n |-> top_n,
                    value |-> analyze_word_frequency(df_clean, column, top_n)]
    /\ outcome' = [op |-> "analyze_word_frequency", raised |-> NoError]
    /\ UNCHANGED <<file, analyzer, df, df_clean, printed>>
    /\ UNCHANGED appVars
    /\ UNCHANGED callerVars

AnalysisOps == {"analyze_publications_over_time", "analyze_top_journals",
                "analyze_word_frequency"}

NothingKept == [clean |-> None, result |-> NoResult]

\* the caller keeps the cleaned table together with the aggregate an analyze_
\* method has just returned from it
Keep ==
    /\ pc = "library" /\ kept = NothingKept
    /\ outcome.op \in AnalysisOps /\ result.op = outcome.op
    /\ kept' = [clean |-> df_clean, result |-> result]
    /\ UNCHANGED <<file, analyzer, df, df_clean, outcome, printed, result, tie_order>>
    /\ UNCHANGED appVars

Next ==
    \/ Construct
    \/ BasicExploration
    \/ CleanData
    \/ AnalyzePublicationsOverTime
    \/ AnalyzeTopJournals
    \/ AnalyzeWordFrequency

(* ------------------------------ inputs --------------------------------- *)
Row(title, abstract, journal, publish_time) ==
    [title |-> title, abstract |-> abstract, journal |-> journal,
     publish_time |-> publish_time]

Tables(rowSet, n) == UNION {[1..k -> rowSet] : k \in 0..n}

TitleA == Str(<<"A">>)
Date2009 == Str(<<"2", "0", "0", "9", "-", "1", "2", "-", "3", "1">>)
Date2010 == Str(<<"2", "0", "1", "0", "-", "0", "1", "-", "0", "1">>)
Date2011 == Str(<<"2", "0", "1", "1", "-", "0", "6", "-", "1", "5">>)
BadDate == Str(<<"b", "a", "d", "-", "d", "a", "t", "e">>)
JournalNEJM == Str(<<" ", "N", "E", "J", "M", " ">>)
JournalNejm == Str(<<"n", "e", "j", "m">>)
JournalLancet == Str(<<"L", "a", "n", "c", "e", "t">>)
JournalBMJ == Str(<<"B", "M", "J", "\t">>)
AbstractOneTwo == Str(<<"o", "n", "e", " ", "t", "w", "o">>)

\* titles with a stop word, capitals, a repeated word, words next to a digit,
\* an underscore, punctuation and a non-ASCII letter
WordTitles ==
    {Str(<<"T", "h", "e", " ", "c", "a", "t", " ", "s", "a", "t">>),
     Str(<<"s", "a", "t", " ", "c", "a", "t">>),
     Str(<<"c", "a", "t", "9", " ", "a", "_", "s", "a", "t">>),
     Str(<<"i", "s", " ", "i", "t", " ", "(", "s", "a", "t", ")", ".">>),
     Str(<<"c", "a", "f", "é", " ", "s", "a", "t">>)}

AbstractChars == {"a", " ", "\n"}
AbstractTexts == UNION {[1..k -> AbstractChars] : k \in 1..MaxAbstractLen}

RowsClean ==
    {Row(NaN, NaN, JournalNEJM, Date2010),
     Row(TitleA, NaN, JournalNEJM, Date2011), Row(TitleA, NaN, JournalNEJM, BadDate)}
RowsYears ==
    {Row(TitleA, NaN, JournalNEJM, d) :
       d \in {Date2009, Date2010, Date2011}}
RowsJournals ==
    {Row(TitleA, NaN, j, Date2011) :
       j \in {NaN, JournalNEJM, JournalNejm, JournalLancet}}
RowsWords ==
    {Row(t, AbstractOneTwo, JournalNEJM, Date2011) : t \in WordTitles \cup {NaN}}
RowsAbstract ==
    {Row(TitleA, a, JournalNEJM, Date2011) :
       a \in {NaN} \cup {Str(x) : x \in AbstractTexts}}
\* a row without title and without date, ahead of the row under study
UntitledRow == Row(NaN, AbstractOneTwo, JournalNEJM, NaN)

InitAnalyzer ==
    /\ analyzer = "none"
    /\ df = None
    /\ df_clean = None
    /\ outcome = NoCall
    /\ printed = ""
    /\ result = NoResult

InitLibrary ==
    /\ InitAnalyzer
    /\ tie_order = {}
    /\ kept = NothingKept
    /\ pc = "library"
    /\ section = "About"
    /\ uploaded_file = NoUpload
    /\ shown = {}
    /\ rendered = "none"
    /\ steps = <<>>

InitClean ==
    /\ file \in {MissingFile, EmptyFile} \cup {Csv(t) : t \in Tables(RowsClean, MaxRows)}
    /\ InitLibrary
InitYears ==
    /\ file \in {Csv(t) : t \in Tables(RowsYears, MaxYearRows)}
    /\ InitLibrary
InitJournals ==
    /\ file \in {Csv(t) : t \in Tables(RowsJournals, MaxJournalRows)}
    /\ InitLibrary
InitWords ==
    /\ file \in {Csv(t) : t \in Tables(RowsWords, MaxWordRows)}
    /\ InitLibrary
InitAbstract ==
    /\ file \in {Csv(<<UntitledRow>>)}
                 \cup {Csv(<<r>>) : r \in RowsAbstract}
                 \cup {Csv(<<UntitledRow, r>>) : r \in RowsAbstract}
    /\ InitLibrary

\* rows for comparing calls: one without title, two journals with equal counts
MaxPureRows == 2
UntitledDatedRow == Row(NaN, NaN, JournalNEJM, Date2010)
RowsPure ==
    {Row(TitleA, NaN, JournalLancet, Date2011),
     Row(TitleA, NaN, JournalBMJ, BadDate)}
InitPure ==
    /\ file \in {Csv(t) : t \in Tables(RowsPure, MaxPureRows)}
                 \cup {Csv(<<UntitledDatedRow>> \o t) :
                          t \in Tables(RowsPure, MaxPureRows)}
    /\ InitLibrary

Init == InitClean

Spec == Init /\ [][Next]_vars
SpecYears == InitYears /\ [][Next]_vars
SpecJournals == InitJournals /\ [][Next]_vars
SpecWords == InitWords /\ [][Next]_vars
SpecAbstract == InitAbstract /\ [][Next]_vars

\* the analyzer used by a caller that keeps results to compare later ones with
NextPure ==
    \/ Next
    \/ Keep
SpecPure == InitPure /\ [][NextPure]_vars

(* --------------------------- app.py: main ------------------------------ *)
Sections == {"Dataset Overview", "Data Exploration", "Visualizations",
             "Word Analysis", "About"}
DataViews == Sections \ {"About"}

\* if uploaded_file is not None: write it to data/metadata.csv
MainUpload ==
    /\ pc = "start"
    /\ IF uploaded_file # NoUpload
       THEN file' = uploaded_file /\ shown' = shown \cup {"success"}
       ELSE UNCHANGED <<file, shown>>
    /\ pc' = "exists"
    /\ UNCHANGED <<analyzer, df, df_clean, outcome, printed, result,
                   section, uploaded_file, rendered, steps>>
    /\ UNCHANGED callerVars

\* (mutant) the existence check does not return
MainExists_NoReturn ==
    /\ pc = "exists"
    /\ IF file.kind = "missing"
       THEN shown' = shown \cup {"warning"} /\ pc' = "init"
       ELSE shown' = shown /\ pc' = "init"
    /\ UNCHANGED <<file, analyzer, df, df_clean, outcome, printed, result,
                   section, uploaded_file, rendered, steps>>
    /\ UNCHANGED callerVars

\* if not os.path.exists("data/metadata.csv"): st.warning(...); return
MainExists ==
    /\ pc = "exists"
    /\ IF file.kind = "missing"
       THEN shown' = shown \cup {"warning"} /\ pc' = "done"
       ELSE shown' = shown /\ pc' = "init"
    /\ UNCHANGED <<file, analyzer, df, df_clean, outcome, printed, result,
                   section, uploaded_file, rendered, steps>>
    /\ UNCHANGED callerVars

\* try: analyzer = CORD19Analyzer("data/metadata.csv") ... except: st.error; return
MainConstruct ==
    /\ pc = "init"
    /\ LET l == LoadData(file)
       IN /\ analyzer' = IF l.raised = NoError THEN "constructed" ELSE "failed"
          /\ df' = l.df
          /\ printed' = l.printed
          /\ outcome' = [op |-> "load_data", raised |-> l.raised]
          /\ IF l.raised = NoError
             THEN shown' = shown /\ pc' = "clean"
             ELSE shown' = shown \cup {"error"} /\ pc' = "done"
    /\ steps' = Append(steps, "load")
    /\ UNCHANGED <<file, df_clean, result, section, uploaded_file, rendered>>
    /\ UNCHANGED callerVars

\* try: ... df_clean = analyzer.clean_data() except: st.error; return
MainClean ==
    /\ pc = "clean"
    /\ LET c == clean_data(df)
       IN /\ outcome' = [op |-> "clean_data", raised |-> c.raised]
          /\ df_clean' = IF c.raised = NoError THEN c.frame ELSE df_clean
          /\ printed' = IF c.raised = NoError
                        THEN "Data cleaned. Remaining rows:" ELSE printed
          /\ IF c.raised = NoError
             THEN shown' = shown /\ pc' = "view"
             ELSE shown' = shown \cup {"error"} /\ pc' = "done"
          /\ df' = c.self_df
    /\ steps' = Append(steps, "clean")
    /\ UNCHANGED <<file, analyzer, result, section, uploaded_file, rendered>>
    /\ UNCHANGED callerVars

\* the if/elif chain on section: one show_ function runs
MainView ==
    /\ pc = "view"
    /\ rendered' = section
    /\ steps' = Append(steps, "view")
    /\ pc' = "done"
    /\ UNCHANGED <<file, analyzer, df, df_clean, outcome, printed, result,
                   section, uploaded_file, shown>>
    /\ UNCHANGED callerVars

AppTable1 == <<Row(TitleA, AbstractOneTwo, JournalNEJM, Date2011)>>
AppTable2 == <<Row(TitleA, NaN, JournalNEJM, BadDate)>>
AppTable3 == <<Row(NaN, AbstractOneTwo, NaN, Date2010),
               Row(TitleA, NaN, NaN, BadDate)>>
Uploads == {EmptyFile, Csv(AppTable1), Csv(AppTable2), Csv(AppTable3)}

\* a widget interaction: the script runs again from the top with new locals
MainRerun ==
    /\ pc = "done"
    /\ pc' = "start"
    /\ section' \in Sections
    /\ uploaded_file' \in {NoUpload} \cup Uploads
    /\ analyzer' = "none" /\ df' = None /\ df_clean' = None
    /\ outcome' = NoCall /\ printed' = "" /\ result' = NoResult
    /\ shown' = {} /\ rendered' = "none" /\ steps' = <<>>
    /\ UNCHANGED file
    /\ UNCHANGED callerVars

NextApp ==
    \/ MainUpload
    \/ MainExists
    \/ MainConstruct
    \/ MainClean
    \/ MainView
    \/ MainRerun

InitApp ==
    /\ tie_order = {}
    /\ kept = NothingKept
    /\ file \in {MissingFile} \cup Uploads
    /\ InitAnalyzer
    /\ pc = "start"
    /\ section \in Sections
    /\ uploaded_file \in {NoUpload} \cup Uploads
    /\ shown = {}
    /\ rendered = "none"
    /\ steps = <<>>

SpecApp == InitApp /\ [][NextApp]_vars

(* ------------------------------ claims --------------------------------- *)
\* the raw row a cleaned row came from (the index label is the row's position)
RawOf(r) == df.rows[r.index + 1]
CleanRows == {df_clean.rows[i] : i \in DOMAIN df_clean.rows}

\* C1: every row of a cleaned table that clean_data returned has a non-null
\* title and a publication_year that is non-null and an integer
C1_CleanedRowsHaveTitleAndYear ==
    ~df_clean.isNone =>
        \A r \in CleanRows :
            /\ ~r.title.null
            /\ ~r.publication_year.null
            /\ r.publication_year.v \in Int
            /\ ~RawOf(r).title.null

\* C1 witness: a table was returned although the raw table had a row without
\* title, and a kept row got its year by imputation
C1_Witness ==
    /\ ~df_clean.isNone
    /\ Len(df_clean.rows) < Len(df.rows)
    /\ \E r \in CleanRows : r.publish_time.null

\* C2 (as claimed): clean_data on a loaded table with rows and a usable journal
\* column never raises, whatever the publish_time strings are
C2_NeverFailsOnDates ==
    (outcome.op = "clean_data" /\ ~df.isNone /\ df.rows # <<>>
        /\ ~StrAccessorFails(df.rows))
        => outcome.raised = NoError

\* C3 (as claimed): constructing the analyzer on a missing path ends in an error
C3_MissingPathRaises ==
    (analyzer # "none" /\ file.kind = "missing") => analyzer = "failed"

\* C3 (amended): on a missing path load_data prints a line and returns, the
\* constructor returns an analyzer whose df is None, and the failure shows only
\* when a method that reads df (clean_data, basic_exploration) is then called
\* and raises AttributeError
C3_MissingPathReturnsNone ==
    (analyzer # "none" /\ file.kind = "missing") =>
        /\ analyzer = "constructed"
        /\ df.isNone /\ df_clean.isNone
        /\ outcome.op = "load_data" =>
              /\ outcome.raised = NoError
              /\ printed = "File not found. Please check the file path."
        /\ outcome.op # "load_data" =>
              /\ outcome.op \in {"clean_data", "basic_exploration"}
              /\ outcome.raised = "AttributeError"

\* C3 witness: clean_data was called on the analyzer built from a missing path
C3_Witness ==
    file.kind = "missing" /\ analyzer = "constructed" /\ outcome.op = "clean_data"

\* C4: in a run of main a data view is rendered only after load and clean both
\* succeeded; a missing file gives the warning and nothing is attempted; a
\* failed load or clean gives the error and no view
C4_ViewOnlyAfterLoadAndClean ==
    /\ rendered \in DataViews =>
          /\ steps = <<"load", "clean", "view">>
          /\ analyzer = "constructed" /\ ~df.isNone /\ ~df_clean.isNone
          /\ shown \cap {"warning", "error"} = {}
    /\ "warning" \in shown =>
          steps = <<>> /\ rendered = "none" /\ analyzer = "none"
    /\ (pc \notin {"start", "exists"} /\ file.kind = "missing") =>
          "warning" \in shown /\ pc = "done"
    /\ "error" \in shown => rendered = "none" /\ pc = "done"
    /\ outcome.raised # NoError => "error" \in shown
    /\ (pc = "done" /\ rendered = "none") => shown \cap {"warning", "error"} # {}

\* C4 witness: a data view was rendered in a run that first stored an upload
C4_Witness ==
    rendered \in DataViews /\ "success" \in shown /\ pc = "done"

\* the positions of s where a whitespace-separated token starts
TokenStarts(s) ==
    {i \in DOMAIN s : s[i] \notin Whitespace /\ (i = 1 \/ s[i - 1] \in Whitespace)}
ExpectedWordCount(x) == IF x.null THEN 0 ELSE Cardinality(TokenStarts(x.s))

\* C5: abstract_word_count is 0 for a null abstract, else the number of
\* whitespace-separated tokens of the abstract; it is never negative
C5_AbstractWordCount ==
    /\ ~df.isNone =>
          \A i \in DOMAIN df.rows :
              /\ abstract_word_count(df.rows[i].abstract)
                    = ExpectedWordCount(df.rows[i].abstract)
              /\ abstract_word_count(df.rows[i].abstract) >= 0
    /\ ~df_clean.isNone =>
          \A r \in CleanRows :
              /\ r.abstract_word_count = ExpectedWordCount(RawOf(r).abstract)
              /\ r.abstract_word_count >= 0

\* C5 witness: a cleaned row whose abstract holds two tokens and a newline,
\* kept from a raw table whose first row was dropped
C5_Witness ==
    /\ ~df_clean.isNone
    /\ \E r \in CleanRows :
          /\ r.index = 1
          /\ ~r.abstract.null
          /\ r.abstract_word_count = 2
          /\ \E i \in DOMAIN r.abstract.s : r.abstract.s[i] = "\n"

\* the years of the raw rows whose date parses, and the most frequent of them
ParsedYearsOf(rows) ==
    [i \in {j \in DOMAIN rows : ~to_datetime(rows[j].publish_time).null}
       |-> to_datetime(rows[i].publish_time).year]
TimesIn(f, y) == Cardinality({i \in DOMAIN f : f[i] = y})
MostFrequentYears(rows) ==
    LET f == ParsedYearsOf(rows)
    IN {y \in Range(f) : \A z \in Range(f) : TimesIn(f, z) <= TimesIn(f, y)}
RECURSIVE Titled(_)
Titled(rows) ==
    IF rows = <<>> THEN <<>>
    ELSE (IF Head(rows).title.null THEN <<>> ELSE <<Head(rows)>>) \o Titled(Tail(rows))

\* C6: a row whose date parsed keeps its own year; all rows whose date is null
\* get one and the same year, a most frequent year among the parsed dates of
\* all raw rows, those without a title included
C6_YearKeptOrImputed ==
    ~df_clean.isNone =>
        /\ \A r \in CleanRows :
              LET d == to_datetime(RawOf(r).publish_time)
              IN /\ ~d.null => r.publication_year = Year(d.year)
                 /\ d.null => /\ ~r.publication_year.null
                              /\ r.publication_year.v \in MostFrequentYears(df.rows)
        /\ \A r1, r2 \in CleanRows :
              (r1.publish_time.null /\ r2.publish_time.null)
                  => r1.publication_year = r2.publication_year

\* C6 witness: a kept row has an imputed year, and the rows without a title
\* decide the mode (the titled rows alone have a different most frequent year)
C6_Witness ==
    /\ ~df_clean.isNone
    /\ \E r \in CleanRows : r.publish_time.null
    /\ MostFrequentYears(Titled(df.rows)) # {}
    /\ MostFrequentYears(Titled(df.rows)) \cap MostFrequentYears(df.rows) = {}

\* the fixed stop-word set, as the specification lists it
ListedStopWords ==
    {<<"t","h","e">>, <<"a","n","d">>, <<"o","f">>, <<"i","n">>, <<"t","o">>,
     <<"a">>, <<"f","o","r">>, <<"w","i","t","h">>, <<"o","n">>, <<"b","y">>,
     <<"a","s">>, <<"a","n">>, <<"f","r","o","m">>, <<"t","h","a","t">>,
     <<"t","h","i","s">>, <<"i","s">>, <<"a","r","e">>, <<"w","a","s">>,
     <<"w","e","r","e">>, <<"b","e">>}

\* C7: no word returned by analyze_word_frequency is a stop word, and every
\* returned word is made of alphabetic characters only and has length >= 3
C7_NoStopWordsNoShortWords ==
    result.op = "analyze_word_frequency" =>
        \A k \in DOMAIN result.value :
            LET w == result.value[k].key
            IN /\ w \notin ListedStopWords
               /\ Len(w) >= 3
               /\ \A i \in DOMAIN w : w[i] \in Range(UpperSeq) \cup Range(LowerSeq)

\* C7 witness: words were returned for a text that holds the stop word "the"
\* and a token shorter than three letters
C7_Witness ==
    /\ result.op = "analyze_word_frequency" /\ result.column = "title"
    /\ result.value # <<>>
    /\ \E r1, r2 \in CleanRows :
          /\ ~r1.title.null /\ SubSeq(r1.title.s, 1, 3) = <<"T", "h", "e">>
          /\ ~r2.title.null /\ SubSeq(r2.title.s, 1, 2) = <<"i", "s">>

\* the text analyze_word_frequency tokenizes
ResultText == Lower(all_text(df_clean, result.column))

IsAlphabetic(c) == c \in Range(UpperSeq) \cup Range(LowerSeq) \cup NonAsciiLetters

\* the positions where a maximal run of characters satisfying Letter starts,
\* and the run that starts there
RunEnd(s, i, Letter(_)) ==
    CHOOSE j \in i..Len(s) :
        /\ \A k \in i..j : Letter(s[k])
        /\ j = Len(s) \/ ~Letter(s[j + 1])
RunStarts(s, Letter(_)) ==
    {i \in DOMAIN s : Letter(s[i]) /\ (i = 1 \/ ~Letter(s[i - 1]))}
RunAt(s, i, Letter(_)) == SubSeq(s, i, RunEnd(s, i, Letter))

\* the runs of >= 3 alphabetic characters that are not stop words, whatever
\* surrounds them
AlphabeticWordStarts(s) ==
    {i \in RunStarts(s, IsAlphabetic) :
       /\ Len(RunAt(s, i, IsAlphabetic)) >= 3
       /\ RunAt(s, i, IsAlphabetic) \notin ListedStopWords}

\* the runs of >= 3 ASCII letters that are not stop words and have no word
\* character (letter of any alphabet, digit, underscore) right before or after
DelimitedWordStarts(s) ==
    {i \in RunStarts(s, IsAsciiLetter) :
       LET e == RunEnd(s, i, IsAsciiLetter)
       IN /\ e - i + 1 >= 3
          /\ SubSeq(s, i, e) \notin ListedStopWords
          /\ i = 1 \/ ~IsWordChar(s[i - 1])
          /\ e = Len(s) \/ ~IsWordChar(s[e + 1])}

\* value is the ranking of the words starting at the positions starts of s:
\* the n best by count, then first occurrence
IsRanking(value, s, starts, Letter(_), n) ==
    LET W == {RunAt(s, i, Letter) : i \in starts}
        Count(w) == Cardinality({i \in starts : RunAt(s, i, Letter) = w})
        First(w) == CHOOSE i \in starts :
                       /\ RunAt(s, i, Letter) = w
                       /\ \A j \in starts : RunAt(s, j, Letter) = w => i <= j
        Before(a, b) == Count(a) > Count(b) \/ (Count(a) = Count(b) /\ First(a) < First(b))
    IN /\ Len(value) = Min(Max(n, 0), Cardinality(W))
       /\ \A k \in DOMAIN value :
             value[k].key \in W /\ value[k].count = Count(value[k].key)
       /\ \A k, l \in DOMAIN value : k < l => Before(value[k].key, value[l].key)
       /\ \A w \in W \ {value[k].key : k \in DOMAIN value} :
             \A k \in DOMAIN value : Before(value[k].key, w)

\* C8 (as claimed): the result ranks every maximal run of >= 3 alphabetic
\* characters that is not a stop word, whatever surrounds the run (stated for
\* texts of ASCII characters, where "alphabetic" has one reading)
C8_RanksAllAlphabeticRuns ==
    (/\ result.op = "analyze_word_frequency"
     /\ \A i \in DOMAIN ResultText : ResultText[i] \notin NonAsciiLetters) =>
        IsRanking(result.value, ResultText, AlphabeticWordStarts(ResultText),
                  IsAlphabetic, result.top_n)

\* C8 (amended): the result ranks the maximal runs of >= 3 ASCII letters that are
\* not stop words and are delimited by non-word characters (or the text's
\* ends): descending count, equal counts by first occurrence, at most n entries
C8_RanksDelimitedRuns ==
    result.op = "analyze_word_frequency" =>
        /\ IsRanking(result.value, ResultText, DelimitedWordStarts(ResultText),
                     IsAsciiLetter, result.top_n)
        /\ Len(result.value) <= result.top_n

\* C8 witness: two words returned, the one with the larger count first although
\* it occurs later in the text, from a text that also holds a run next to a
\* digit
C8_Witness ==
    /\ result.op = "analyze_word_frequency"
    /\ Len(result.value) = 2
    /\ result.value[1].count > result.value[2].count
    /\ \E i, j \in DelimitedWordStarts(ResultText) :
          /\ i < j
          /\ RunAt(ResultText, i, IsAsciiLetter) = result.value[2].key
          /\ RunAt(ResultText, j, IsAsciiLetter) = result.value[1].key
          /\ \A k \in DelimitedWordStarts(ResultText) :
                RunAt(ResultText, k, IsAsciiLetter) = result.value[1].key => k > i
    /\ AlphabeticWordStarts(ResultText) # DelimitedWordStarts(ResultText)

\* value is the publications-by-year mapping of rows from minYear on
IsYearlyCounts(value, rows, minYear) ==
    LET Years == {rows[i].publication_year.v : i \in DOMAIN rows}
    IN /\ {value[k].key : k \in DOMAIN value} = {y \in Years : y >= minYear}
       /\ \A k \in 1..(Len(value) - 1) : value[k].key < value[k + 1].key
       /\ \A k \in DOMAIN value :
             value[k].count =
                 Cardinality({i \in DOMAIN rows :
                                rows[i].publication_year.v = value[k].key})

RequestedMinYears == {2010, 2011}

\* C9 (as claimed): whatever minYear is requested, the keys are exactly the
\* years present that are >= that minYear
C9_KeysFromRequestedMinYear ==
    result.op = "analyze_publications_over_time" =>
        \A minYear \in RequestedMinYears :
            IsYearlyCounts(result.value, df_clean.rows, minYear)

\* C9 (amended): the keys are exactly the years present that are >= 2010 (the
\* threshold is fixed, no minYear can be requested), strictly increasing, each
\* with the number of rows of that year
C9_KeysFrom2010 ==
    result.op = "analyze_publications_over_time" =>
        IsYearlyCounts(result.value, df_clean.rows, 2010)

\* C9 witness: two years returned in a result that left out a year before 2010
\* and in which the later year has the larger count
C9_Witness ==
    /\ result.op = "analyze_publications_over_time"
    /\ Len(result.value) = 2
    /\ result.value[1].count < result.value[2].count
    /\ \E r \in CleanRows : r.publication_year.v < 2010

JournalTally(name) ==
    Cardinality({i \in DOMAIN df_clean.rows :
                   /\ ~df_clean.rows[i].journal_clean.null
                   /\ df_clean.rows[i].journal_clean.s = name})
JournalNames ==
    {r.journal_clean.s : r \in {q \in CleanRows : ~q.journal_clean.null}}

\* C10: analyze_top_journals returns at most n entries, counts non-increasing,
\* each the tally of its journal_clean, and no journal left out has a larger
\* count than one returned
C10_TopJournals ==
    result.op = "analyze_top_journals" =>
        LET v == result.value
            Returned == {v[k].key : k \in DOMAIN v}
        IN /\ Len(v) <= result.top_n
           /\ \A k \in 1..(Len(v) - 1) : v[k].count >= v[k + 1].count
           /\ \A k \in DOMAIN v :
                 v[k].key \in JournalNames /\ v[k].count = JournalTally(v[k].key)
           /\ \A name \in JournalNames \ Returned :
                 \A k \in DOMAIN v : JournalTally(name) <= v[k].count

\* C10 witness: one journal returned out of several, with a count of two that
\* comes from two spellings of the same name
C10_Witness ==
    /\ result.op = "analyze_top_journals"
    /\ result.top_n = 1 /\ Len(result.value) = 1
    /\ result.value[1].count = 2
    /\ Cardinality(JournalNames) >= 2
    /\ \E r1, r2 \in CleanRows :
          /\ r1.journal # r2.journal
          /\ r1.journal_clean = r2.journal_clean
          /\ r1.journal_clean = Str(result.value[1].key)

\* C11: once loaded, the raw table held by the analyzer stays what the file
\* held, whatever calls of clean_data, basic_exploration and the analyze_
\* methods follow: same rows, same four columns, publish_time still the strings
C11_RawTableUnchanged ==
    (analyzer = "constructed" /\ ~df.isNone) =>
        /\ df = DataFrame(file.rows)
        /\ \A i \in DOMAIN df.rows :
              /\ DOMAIN df.rows[i] = Range(RawColumns)
              /\ df.rows[i].publish_time = file.rows[i].publish_time
              /\ df.rows[i].journal = file.rows[i].journal

\* C11 witness: basic_exploration ran after a clean_data that parsed a date,
\* imputed a year, normalised a journal name and dropped a row
C11_Witness ==
    /\ ~df_clean.isNone
    /\ Len(df_clean.rows) < Len(df.rows)
    /\ \E r \in CleanRows :
          r.publish_time.null /\ r.journal_clean # r.journal
    /\ outcome = [op |-> "basic_exploration", raised |-> NoError]
    /\ result.op = "basic_exploration" /\ result.shape[1] = Len(file.rows)

====
